---- MODULE Spec2Model ----
(***************************************************************************)
(* Model of the Gemini summarization service: the routing layer            *)
(* (app/router.py), its size guard (app/dependencies.py) and the three     *)
(* service operations summarize_text, summarize_pdf_files and              *)
(* summarize_url (app/services.py).                                        *)
(*                                                                         *)
(* Python strings that are processed character by character are sequences *)
(* of characters; strings that are only compared or passed on are TLA+     *)
(* strings.  Python's None is the value None (or NoneText where a sequence *)
(* is expected).  Remote peers (the model service, the web server) answer  *)
(* nondeterministically.                                                   *)
(***************************************************************************)
EXTENDS Integers, Sequences, FiniteSets, TLC

VARIABLES pc, req, stack, entered, model_calls, fetches, outcome, client

vars == <<pc, req, stack, entered, model_calls, fetches, outcome, client>>

(***************************************************************************)
(* Bounds of the model.                                                    *)
(***************************************************************************)
\* longest pasted text / model reply text, in characters
MaxTextLen == 2

\* the request slots; Spec runs the first one
Reqs == {1, 2}

None == "<None>"
NoneText == <<None>>
NoneInt == -1

Chars == {"a", " ", "\n"}

RECURSIVE SeqsUpTo(_, _)
SeqsUpTo(S, n) ==
    IF n = 0 THEN {<<>>}
    ELSE LET shorter == SeqsUpTo(S, n - 1)
         IN  shorter \cup {Append(s, c) : s \in {t \in shorter : Len(t) = n - 1}, c \in S}

Texts == SeqsUpTo(Chars, MaxTextLen)

\* byte strings: file contents and fetched bodies
PdfA == <<37, 80>>
PdfB == <<37>>
ByteStrings == {<<>>, PdfB, PdfA}
FileLists == {<<>>, <<PdfA>>, <<PdfA, PdfB>>, <<PdfB, PdfA>>}

(***************************************************************************)
(* app/router.py: the values a caller of the routing layer can select.     *)
(***************************************************************************)
LengthOption == {"Short", "Medium", "Detailed"}
ToneOption ==
    {"Professional", "Casual", "Simple, for a general audience",
     "Technical, for an expert audience"}
OutputFormat == {"json", "text", "markdown", "pdf", "docx"}
\* the tones and output formats the requests of the model select
Tones == {None, "Professional"}
OutputFormats == {"json", "text"}
\* custom_prompt: absent, empty, blank, non-blank
CustomPrompts == {None, "", " ", "Explain this"}
Blank(custom) == custom \in {None, "", " "}

\* arguments a direct caller of the service functions may pass for length
ServiceLengths == {None, "short", "medium", "detailed"} \cup LengthOption

(***************************************************************************)
(* app/dependencies.py                                                     *)
(***************************************************************************)
MAX_REQUEST_SIZE == 15 * 1024 * 1024

\* the Content-Length header of the inbound request: absent, or its text,
\* which is empty, or what int() accepts, or neither
NoHeader == [present |-> FALSE]
EmptyHeader == [present |-> TRUE, empty |-> TRUE]
BadHeader == [present |-> TRUE, empty |-> FALSE, is_int |-> FALSE]
IntHeader(n) == [present |-> TRUE, empty |-> FALSE, is_int |-> TRUE, size |-> n]
ContentLengths ==
    {NoHeader, EmptyHeader, BadHeader,
     IntHeader(MAX_REQUEST_SIZE), IntHeader(MAX_REQUEST_SIZE + 1)}

\* limit_content_length: the status of the HTTPException it raises, or 0
\* when it returns and the request proceeds
limit_content_length(content_length) ==
    IF ~content_length.present \/ content_length.empty THEN 0
    ELSE IF ~content_length.is_int THEN 400
    ELSE IF content_length.size > MAX_REQUEST_SIZE THEN 413
    ELSE 0

(***************************************************************************)
(* app/services.py: build_dynamic_instruction                              *)
(***************************************************************************)
length_map ==
    [short    |-> "in a single, concise paragraph (around 100 words)",
     medium   |-> "in about three paragraphs (around 300 words)",
     detailed |-> "as a detailed summary (around 500 words)"]

\* length_map.get(length, 'medium')
LengthMapGet(length) ==
    IF length \in DOMAIN length_map THEN length_map[length] ELSE "medium"

\* Python truthiness of an optional string
Truthy(s) == s # None /\ s # ""

\* The instruction is the sequence of its lines; a line is <<kind, argument>>.
build_dynamic_instruction(length, tone, is_json_mode) ==
    <<  <<"base", "expert summarizer: summary and title">>  >>
    \o (IF is_json_mode THEN << <<"json", "MUST be a JSON object matching the schema">> >>
        ELSE <<>>)
    \o (IF Truthy(length) THEN << <<"length", LengthMapGet(length)>> >> ELSE <<>>)
    \o (IF Truthy(tone) THEN << <<"tone", tone>> >> ELSE <<>>)

\* types.GenerateContentConfig of the two kinds of model request
JsonConfig(system_instruction) ==
    [system_instruction |-> system_instruction,
     response_mime_type |-> "application/json",
     response_schema    |-> "EnhancedSummaryResponse"]

PlainConfig(system_instruction) ==
    [system_instruction |-> system_instruction,
     response_mime_type |-> None,
     response_schema    |-> None]

\* the generation mode a configuration asks of the model
Mode(config) == IF config.response_schema # None THEN "Structured" ELSE "FreeText"

(***************************************************************************)
(* Text processing                                                         *)
(***************************************************************************)
\* text.replace('\n', ' ')
ReplaceNewlines(text) ==
    [i \in 1..Len(text) |-> IF text[i] = "\n" THEN " " ELSE text[i]]

IsSpace(c) == c \in {" ", "\n"}

\* str.strip()
RECURSIVE LStrip(_)
LStrip(t) == IF t # <<>> /\ IsSpace(Head(t)) THEN LStrip(Tail(t)) ELSE t

RECURSIVE RStrip(_)
RStrip(t) ==
    IF t # <<>> /\ IsSpace(t[Len(t)]) THEN RStrip(SubSeq(t, 1, Len(t) - 1)) ELSE t

Strip(t) == RStrip(LStrip(t))

(***************************************************************************)
(* Exceptions.  An exception is its class and what it says; IsInstance     *)
(* follows the Python class hierarchy (pydantic's ValidationError and      *)
(* json's JSONDecodeError are ValueErrors).                                *)
(***************************************************************************)
Exc(type, msg) == [type |-> type, msg |-> msg]

Superclasses(type) ==
    CASE type = "ValidationError" -> {"ValidationError", "ValueError", "Exception"}
      [] type = "JSONDecodeError" -> {"JSONDecodeError", "ValueError", "Exception"}
      [] type = "ConnectError"    -> {"ConnectError", "RequestError", "Exception"}
      [] OTHER                    -> {type, "Exception"}

IsInstance(exc, class) == class \in Superclasses(exc.type)

\* what a model request can raise: a provider error, a transport error, a
\* response that cannot be decoded
ModelFailures ==
    {Exc("APIError", "provider"), Exc("ConnectError", "transport"),
     Exc("JSONDecodeError", "malformed response")}

\* what a fetch can raise (subclasses of httpx.RequestError)
FetchFailures == {Exc("ConnectError", "transport")}

(***************************************************************************)
(* Exception handlers.  The stack of a request lists its frames, outermost *)
(* first.  A frame names the function and where in it the call is:         *)
(* "text_pre" is summarize_text before its try, "text_try" inside it; the  *)
(* same for "pdf_pre" and "pdf_try"; all of summarize_url is "url_try".    *)
(* "direct" is a caller of the service function itself.                    *)
(***************************************************************************)
RouterFrames == {"router_paste", "router_url", "router_pdf"}

\* ServiceHandler, had summarize_text and summarize_pdf_files caught the
\* provider's errors only
ServiceHandler_ProviderErrorsOnly(frame, exc) ==
    CASE frame = "text_try" /\ IsInstance(exc, "APIError") ->
            Exc("RuntimeError", "Failed to get a summary from the API.")
      [] frame = "pdf_try" /\ IsInstance(exc, "APIError") ->
            Exc("RuntimeError", "Failed to process the PDF files with the API.")
      [] frame = "url_try" /\ IsInstance(exc, "RequestError") ->
            Exc("ValueError", "Could not fetch or process the URL")
      [] OTHER -> exc

\* the except clauses of the service functions: the exception that leaves
\* the frame when `exc` is raised in it
ServiceHandler(frame, exc) ==
    CASE frame = "text_try" ->
            Exc("RuntimeError", "Failed to get a summary from the API.")
      [] frame = "pdf_try" ->
            Exc("RuntimeError", "Failed to process the PDF files with the API.")
      [] frame = "url_try" ->
            IF IsInstance(exc, "RequestError")
            THEN Exc("ValueError", "Could not fetch or process the URL")
            ELSE exc
      [] OTHER -> exc

\* the except clauses of the endpoints: the HTTP answer to an exception
RouterHandler(frame, exc) ==
    IF frame = "router_url" /\ IsInstance(exc, "URLAccessError")
    THEN [kind |-> "http_error", status |-> exc.status_code, exc |-> exc]
    ELSE IF IsInstance(exc, "ValueError") \/ IsInstance(exc, "RuntimeError")
    THEN [kind |-> "http_error", status |-> 400, exc |-> exc]
    ELSE [kind |-> "uncaught", status |-> 500, exc |-> exc]

\* the outcome of the request when `exc` is raised in the innermost frame
RECURSIVE Propagate(_, _)
Propagate(stk, exc) ==
    LET frame == stk[Len(stk)] IN
    IF frame \in RouterFrames THEN RouterHandler(frame, exc)
    ELSE IF frame = "direct" THEN [kind |-> "raised", exc |-> exc]
    ELSE Propagate(SubSeq(stk, 1, Len(stk) - 1), ServiceHandler(frame, exc))

(***************************************************************************)
(* Model responses                                                         *)
(***************************************************************************)
NoUsage == [absent |-> TRUE]
Usage(p, c, t) ==
    [prompt_token_count |-> p, candidates_token_count |-> c, total_token_count |-> t]
Usages == {NoUsage, Usage(10, 20, 30), Usage(NoneInt, NoneInt, NoneInt)}

NoParsed == [absent |-> TRUE]
Parsed == [title |-> "T", summary |-> <<"a">>]

\* types.GenerateContentResponse: the fields the program reads
Responses ==
    [text : {NoneText, <<"a">>}, parsed : {NoParsed, Parsed}, usage_metadata : Usages]

\* the text of the reply to a plain-text request
PlainReplies == Texts \cup {NoneText}

\* the response to a plain-text request: its text and its own usage counters
PlainResponses == [text : PlainReplies, usage_metadata : {NoUsage, Usage(5, 5, 10)}]

(***************************************************************************)
(* Fetched resources                                                       *)
(***************************************************************************)
\* A Content-Type header is the sequence of its parts; lower() acts on each
LowerPart(part) ==
    CASE part = "Application/PDF" -> "application/pdf"
      [] part = "TEXT/HTML"       -> "text/html"
      [] OTHER                    -> part

Lower(content_type) == [i \in 1..Len(content_type) |-> LowerPart(content_type[i])]

\* needle in content_type
Contains(content_type, needle) == \E i \in 1..Len(content_type) : content_type[i] = needle

\* response.headers.get("Content-Type", ""): an absent header is the empty string
ContentTypes ==
    {<<>>, <<"application/pdf">>, <<"Application/PDF">>, <<"text/html", "; charset=utf-8">>,
     <<"TEXT/HTML">>, <<"image/png">>, <<"application/pdf", ", ", "text/html">>}

\* An HTML document is the sequence of its text-bearing elements, in document
\* order: the element's tag, the tag of the element enclosing it, its text,
\* and the type and src attributes.
Node(tag, parent, text) ==
    [tag |-> tag, parent |-> parent, text |-> text, type |-> None, src |-> None]
Embed(type, src) ==
    [tag |-> "embed", parent |-> "body", text |-> <<>>, type |-> type, src |-> src]

Documents ==
    {<<>>,
     <<Node("script", "body", <<"a">>), Node("p", "body", <<"a">>)>>,
     <<Node("script", "body", <<"a">>)>>,
     <<Node("p", "nav", <<"a">>), Node("iframe", "body", <<"a">>)>>,
     <<Node("p", "body", <<" ", "\n">>)>>,
     <<Node("p", "body", <<" ", "a">>), Node("p", "div", <<"a", "\n", "a", "\n">>)>>,
     <<Embed("application/pdf", "doc.pdf"), Node("p", "body", <<"a">>)>>,
     <<Embed("application/pdf", "https://cdn/doc.pdf")>>,
     <<Embed("application/pdf", None), Node("p", "body", <<"a">>)>>,
     <<Embed("video/mp4", "clip.mp4"), Node("p", "body", <<"a">>)>>}

\* BeautifulSoup(response.content, 'html.parser') of a body that is no HTML
\* document finds no elements
Bodies ==
    {[content |-> b, soup |-> <<>>] : b \in ByteStrings}
    \cup {[content |-> <<60>>, soup |-> d] : d \in Documents}

\* soup.find("embed", attrs={"type": "application/pdf"}): the first such
\* element, or None
NoElement == [absent |-> TRUE]

RECURSIVE FindEmbed(_)
FindEmbed(soup) ==
    IF soup = <<>> THEN NoElement
    ELSE IF Head(soup).tag = "embed" /\ Head(soup).type = "application/pdf" THEN Head(soup)
    ELSE FindEmbed(Tail(soup))

NonContent == {"script", "style", "nav", "footer", "header", "aside", "iframe"}

\* Decompose, had it removed the listed elements' own text only
Decompose_OwnTextOnly(soup) ==
    LET keep(n) == n.tag \notin NonContent
    IN  SelectSeq(soup, keep)

\* element.decompose() for every element of the seven tags: the element and
\* all it encloses leave the document
Decompose(soup) ==
    LET keep(n) == n.tag \notin NonContent /\ n.parent \notin NonContent
    IN  SelectSeq(soup, keep)

\* soup.get_text(separator=' ', strip=True): the stripped, non-empty texts
\* joined by single spaces
RECURSIVE GetText(_)
GetText(soup) ==
    IF soup = <<>> THEN <<>>
    ELSE LET first == Strip(Head(soup).text)
             rest  == GetText(Tail(soup))
         IN  IF first = <<>> THEN rest
             ELSE IF rest = <<>> THEN first
             ELSE first \o <<" ">> \o rest

\* urljoin(url, src)
urljoin(url, src) ==
    CASE src = "https://cdn/doc.pdf"                     -> src
      [] url = "https://site/page" /\ src = "doc.pdf"   -> "https://site/doc.pdf"
      [] OTHER                                           -> url

Urls == {"https://site/page"}

\* the answers of a web server: status, declared type and size, body
Statuses == {200, 404, 500}
DeclaredSizes == {NoneInt, 10, MAX_REQUEST_SIZE + 1}
HttpResponses ==
    [status_code : Statuses, content_type : ContentTypes,
     content_length : DeclaredSizes, body : Bodies]

\* the answers to the fetch of an embedded PDF, of which the program reads
\* the body alone
EmbedResponses ==
    {h \in HttpResponses :
        /\ h.status_code \in {200, 404}
        /\ h.content_type = <<"application/pdf">>
        /\ h.content_length = NoneInt
        /\ h.body.soup = <<>>}

(***************************************************************************)
(* The state of one request: where it is suspended (pc), the frames of its *)
(* call stack, the service functions it has entered so far, the model      *)
(* requests and fetches it has issued, its outcome.                        *)
(***************************************************************************)
Local(r) ==
    [pc |-> pc[r], stack |-> stack[r], entered |-> entered[r], calls |-> model_calls[r],
     fetches |-> fetches[r], outcome |-> outcome[r]]

Fresh == [pc |-> "idle", stack |-> <<>>, entered |-> <<>>, calls |-> <<>>, fetches |-> <<>>,
          outcome |-> [kind |-> "none"]]

\* the request ends with outcome `out`
Finish(L, out) == [L EXCEPT !.pc = "done", !.stack = <<>>, !.outcome = out]

\* `exc` is raised in the innermost frame of `stk`
Raise(L, stk, exc) == Finish(L, Propagate(stk, exc))

\* await client.aio.models.generate_content(model, contents, config)
GenerateContent(L, stk, at, config, contents) ==
    [L EXCEPT !.pc = at, !.stack = stk,
              !.calls = Append(@, [config |-> config, contents |-> contents,
                                   status |-> "outstanding", reply |-> NoneText,
                                   parsed |-> NoParsed, usage_metadata |-> NoUsage])]

\* await http_client.get(url, ...)
HttpGet(L, stk, at, url, follow_redirects) ==
    [L EXCEPT !.pc = at, !.stack = stk,
              !.fetches = Append(@, [method |-> "GET", url |-> url,
                                     follow_redirects |-> follow_redirects,
                                     status |-> "outstanding"])]

\* the last model request (or fetch) has been answered
Answered(log, how) == [log EXCEPT ![Len(log)] = how]

(***************************************************************************)
(* app/services.py: the service functions, up to their first suspension    *)
(***************************************************************************)
TextContents(processed_text) ==
    [prompt |-> "Generate a summary and title for this text:", text |-> processed_text,
     parts |-> <<>>]

\* the service function `fn` is entered
Enter(L, fn) == [L EXCEPT !.entered = Append(@, fn)]

\* summarize_text(text, length, tone), called from the frames `stk`
summarize_text(L0, stk, text, length, tone) ==
    LET L == Enter(L0, "summarize_text")
        processed_text == ReplaceNewlines(text) IN
    IF processed_text = <<>>
    THEN Raise(L, Append(stk, "text_pre"), Exc("ValueError", "Input text cannot be empty."))
    ELSE GenerateContent(L, Append(stk, "text_try"), "await_text",
                         JsonConfig(build_dynamic_instruction(length, tone, TRUE)),
                         TextContents(processed_text))

\* file_contents is what the caller passed: a list of byte strings, or one
\* byte string. Iterating a list yields its byte strings; iterating a byte
\* string yields integers, of which Part.from_bytes makes no part.
ListOf(files) == [kind |-> "list", items |-> files]
BytesOf(content) == [kind |-> "bytes", items |-> content]

\* prompt_parts after the prompt instruction
PromptParts(file_contents, mime_type) ==
    [i \in 1..Len(file_contents.items) |->
        [data |-> file_contents.items[i], mime_type |-> mime_type]]

\* summarize_pdf_files, had the test for no files stood inside the try block
summarize_pdf_files_TestInsideTry(L0, stk, file_contents, length, tone, mime_type) ==
    LET L == Enter(L0, "summarize_pdf_files") IN
    IF file_contents.items = <<>>
    THEN Raise(L, Append(stk, "pdf_try"), Exc("ValueError", "No file content was provided."))
    ELSE IF file_contents.kind = "bytes"
    THEN Raise(L, Append(stk, "pdf_try"), Exc("ValidationError", "Input should be a valid bytes"))
    ELSE GenerateContent(L, Append(stk, "pdf_try"), "await_pdf_text",
             PlainConfig(build_dynamic_instruction(length, tone, FALSE)),
             [prompt |-> IF Len(file_contents.items) = 1
                         THEN "Please provide a detailed summary of this document."
                         ELSE "Please provide a detailed summary that synthesizes all documents.",
              text |-> <<>>,
              parts |-> PromptParts(file_contents, mime_type)])

\* summarize_pdf_files(file_contents, length, tone, mime_type)
summarize_pdf_files(L0, stk, file_contents, length, tone, mime_type) ==
    LET L == Enter(L0, "summarize_pdf_files") IN
    IF file_contents.items = <<>>
    THEN Raise(L, Append(stk, "pdf_pre"), Exc("ValueError", "No file content was provided."))
    ELSE IF file_contents.kind = "bytes"
    THEN Raise(L, Append(stk, "pdf_try"), Exc("ValidationError", "Input should be a valid bytes"))
    ELSE GenerateContent(L, Append(stk, "pdf_try"), "await_pdf_text",
             PlainConfig(build_dynamic_instruction(length, tone, FALSE)),
             [prompt |-> IF Len(file_contents.items) = 1
                         THEN "Please provide a detailed summary of this document."
                         ELSE "Please provide a detailed summary that synthesizes all documents.",
              text |-> <<>>,
              parts |-> PromptParts(file_contents, mime_type)])

\* summarize_url(url, length, tone)
summarize_url(L, stk, url, length, tone) ==
    HttpGet(Enter(L, "summarize_url"), Append(stk, "url_try"), "await_get", url, TRUE)

\* the positional parameters each service function accepts
MaxPositional ==
    [summarize_text |-> 3, summarize_url |-> 3, summarize_pdf_files |-> 4]

\* a call of a service function with the positional arguments `args`
Call(L, stk, fn, args) ==
    IF Len(args) > MaxPositional[fn]
    THEN Raise(L, stk, Exc("TypeError", "takes 3 positional arguments but 4 were given"))
    ELSE CASE fn = "summarize_text" -> summarize_text(L, stk, args[1], args[2], args[3])
           [] fn = "summarize_url"  -> summarize_url(L, stk, args[1], args[2], args[3])
           [] fn = "summarize_pdf_files" ->
                summarize_pdf_files(L, stk, args[1], args[2], args[3],
                                    IF Len(args) >= 4 THEN args[4] ELSE "application/pdf")

(***************************************************************************)
(* app/router.py: what an endpoint makes of the response it got back       *)
(***************************************************************************)
\* str(count) in a response header
HeaderValue(count) == IF count = NoneInt THEN [none |-> "None"] ELSE [digits |-> count]

\* build_response(summary_text, output_format, gemini_response)
build_response(summary_text, output_format, gemini_response) ==
    IF gemini_response.usage_metadata = NoUsage
    THEN [raised |-> TRUE,
          exc |-> Exc("AttributeError", "'NoneType' object has no attribute 'prompt_token_count'")]
    ELSE [raised |-> FALSE,
          result |->
            [kind |-> "result", status |-> 200, format |-> output_format,
             body |-> IF summary_text = NoneText THEN <<>> ELSE summary_text,
             headers |->
               [prompt     |-> HeaderValue(gemini_response.usage_metadata.prompt_token_count),
                candidates |-> HeaderValue(gemini_response.usage_metadata.candidates_token_count),
                total      |-> HeaderValue(gemini_response.usage_metadata.total_token_count)]]]

\* the body of the three endpoints after the service call returned
EndpointBody(gemini_response, custom_prompt, output_format) ==
    LET has_parsed   == gemini_response.parsed # NoParsed
        summary_text == IF has_parsed THEN gemini_response.parsed.summary
                        ELSE gemini_response.text
        title        == IF has_parsed THEN gemini_response.parsed.title
                        ELSE IF Truthy(custom_prompt) THEN custom_prompt
                        ELSE "Custom Prompt Result"
        usage        == gemini_response.usage_metadata
    IN  IF output_format # "json"
        THEN build_response(summary_text, output_format, gemini_response)
        ELSE IF usage = NoUsage
        THEN [raised |-> TRUE,
              exc |-> Exc("AttributeError",
                          "'NoneType' object has no attribute 'prompt_token_count'")]
        ELSE IF NoneInt \in {usage.prompt_token_count, usage.candidates_token_count,
                             usage.total_token_count}
        THEN [raised |-> TRUE, exc |-> Exc("ValidationError", "Input should be a valid integer")]
        ELSE IF summary_text = NoneText
        THEN [raised |-> TRUE, exc |-> Exc("ValidationError", "Input should be a valid string")]
        ELSE [raised |-> FALSE,
              result |-> [kind |-> "result", status |-> 200, format |-> "json",
                          title |-> title, summary |-> summary_text, usage |-> usage]]

\* Return, had the counters of the requests of a call been added up
Return_SumUsage(L, rq, gemini_response) ==
    LET first  == L.calls[1].usage_metadata
        last   == gemini_response.usage_metadata
        Add(a, b) == IF a = NoneInt \/ b = NoneInt THEN NoneInt ELSE a + b
        summed == IF Len(L.calls) < 2 \/ first = NoUsage THEN last
                  ELSE IF last = NoUsage THEN first
                  ELSE Usage(Add(first.prompt_token_count, last.prompt_token_count),
                             Add(first.candidates_token_count, last.candidates_token_count),
                             Add(first.total_token_count, last.total_token_count))
        response == [gemini_response EXCEPT !.usage_metadata = summed]
        caller == L.stack[1] IN
    IF caller \in RouterFrames
    THEN LET done == EndpointBody(response, rq.custom_prompt, rq.output_format)
         IN  IF done.raised THEN Raise(L, <<caller>>, done.exc)
             ELSE Finish(L, done.result)
    ELSE Finish(L, [kind |-> "returned", response |-> response])

\* the service call of the outermost frame returned `gemini_response`
Return(L, rq, gemini_response) ==
    LET caller == L.stack[1] IN
    IF caller \in RouterFrames
    THEN LET done == EndpointBody(gemini_response, rq.custom_prompt, rq.output_format)
         IN  IF done.raised THEN Raise(L, <<caller>>, done.exc)
             ELSE Finish(L, done.result)
    ELSE Finish(L, [kind |-> "returned", response |-> gemini_response])

(***************************************************************************)
(* Actions                                                                 *)
(***************************************************************************)
\* Apply, had the outcome of a request been kept in one place for all of them
Apply_SharedOutcome(r, rq, L) ==
    /\ req' = [req EXCEPT ![r] = rq]
    /\ pc' = [pc EXCEPT ![r] = L.pc]
    /\ stack' = [stack EXCEPT ![r] = L.stack]
    /\ entered' = [entered EXCEPT ![r] = L.entered]
    /\ model_calls' = [model_calls EXCEPT ![r] = L.calls]
    /\ fetches' = [fetches EXCEPT ![r] = L.fetches]
    /\ outcome' = [q \in Reqs |-> IF q = r \/ (L.pc = "done" /\ pc[q] = "done")
                                  THEN L.outcome ELSE outcome[q]]
    /\ client' = client

\* a step of request r: its own state becomes L; the client handle is read,
\* never assigned
Apply(r, rq, L) ==
    /\ client' = client
    /\ req' = [req EXCEPT ![r] = rq]
    /\ pc' = [pc EXCEPT ![r] = L.pc]
    /\ stack' = [stack EXCEPT ![r] = L.stack]
    /\ entered' = [entered EXCEPT ![r] = L.entered]
    /\ model_calls' = [model_calls EXCEPT ![r] = L.calls]
    /\ fetches' = [fetches EXCEPT ![r] = L.fetches]
    /\ outcome' = [outcome EXCEPT ![r] = L.outcome]

\* a request to an endpoint: the size guard, then the endpoint's service call
Endpoint(r, rq, fn, args) ==
    LET guard == limit_content_length(rq.content_length) IN
    IF guard # 0
    THEN Apply(r, rq, Finish(Fresh, [kind |-> "http_error", status |-> guard,
                                     exc |-> Exc("HTTPException", "size guard")]))
    ELSE Apply(r, rq, Call(Fresh, <<rq.entry>>, fn, args))

RouterRequest(entry, content_length, custom_prompt, length, tone, output_format) ==
    [entry |-> entry, content_length |-> content_length, custom_prompt |-> custom_prompt,
     length |-> length, tone |-> tone, output_format |-> output_format]

RouterInputs(entry) ==
    {RouterRequest(entry, h, c, l, t, f) :
        h \in ContentLengths, c \in CustomPrompts, l \in LengthOption \cup {None},
        t \in Tones, f \in OutputFormats}

\* POST /summarize/paste
summarize_from_paste_endpoint(r) ==
    /\ pc[r] = "idle"
    /\ \E rq \in RouterInputs("router_paste"), text \in Texts :
          Endpoint(r, [input |-> text] @@ rq, "summarize_text",
                   <<text, rq.length, rq.tone, rq.custom_prompt>>)

\* POST /summarize/url
summarize_url_endpoint(r) ==
    /\ pc[r] = "idle"
    /\ \E rq \in RouterInputs("router_url"), url \in Urls :
          Endpoint(r, [input |-> url] @@ rq, "summarize_url",
                   <<url, rq.length, rq.tone, rq.custom_prompt>>)

\* POST /summarize/pdf/upload
summarize_pdf_upload_endpoint(r) ==
    /\ pc[r] = "idle"
    /\ \E rq \in RouterInputs("router_pdf"), files \in FileLists :
          Endpoint(r, [input |-> files] @@ rq, "summarize_pdf_files",
                   <<ListOf(files), rq.length, rq.tone, rq.custom_prompt>>)

\* a caller of a service function itself, with the function's own parameters
ServiceRequest(fn, input, length, tone) ==
    [entry |-> "direct", fn |-> fn, input |-> input, length |-> length, tone |-> tone]

CallSummarizeText(r) ==
    /\ pc[r] = "idle"
    /\ \E text \in Texts, length \in ServiceLengths, tone \in Tones :
          Apply(r, ServiceRequest("summarize_text", text, length, tone),
                Call(Fresh, <<"direct">>, "summarize_text", <<text, length, tone>>))

CallSummarizePdfFiles(r) ==
    /\ pc[r] = "idle"
    /\ \E files \in FileLists, length \in ServiceLengths, tone \in Tones :
          Apply(r, ServiceRequest("summarize_pdf_files", files, length, tone),
                Call(Fresh, <<"direct">>, "summarize_pdf_files",
                     <<ListOf(files), length, tone>>))

CallSummarizeUrl(r) ==
    /\ pc[r] = "idle"
    /\ \E url \in Urls, length \in ServiceLengths, tone \in Tones :
          Apply(r, ServiceRequest("summarize_url", url, length, tone),
                Call(Fresh, <<"direct">>, "summarize_url", <<url, length, tone>>))

\* the model answers the request of summarize_text: the response is returned
\* to the caller of the outermost service function
TextModelReturn(r) ==
    /\ pc[r] = "await_text"
    /\ \E response \in Responses :
          LET L == [Local(r) EXCEPT
                      !.calls = Answered(@, [@[Len(@)] EXCEPT !.status = "returned",
                                                             !.reply = response.text,
                                                             !.parsed = response.parsed,
                                                             !.usage_metadata =
                                                                 response.usage_metadata])]
          IN  Apply(r, req[r], Return(L, req[r], response))

\* the model answers step 1 of summarize_pdf_files: step 2 follows
PdfStep1Return(r) ==
    /\ pc[r] = "await_pdf_text"
    /\ \E text_response \in PlainResponses :
          LET plain_text_summary == text_response.text
              L == [Local(r) EXCEPT
                      !.calls = Answered(@, [@[Len(@)] EXCEPT !.status = "returned",
                                                             !.reply = plain_text_summary,
                                                             !.usage_metadata =
                                                                 text_response.usage_metadata])]
          IN  IF plain_text_summary = NoneText
              THEN Apply(r, req[r],
                         Raise(L, L.stack,
                               Exc("TypeError", "'NoneType' object is not subscriptable")))
              ELSE Apply(r, req[r],
                         summarize_text(L, L.stack, plain_text_summary, None, None))

\* ModelRaise, had a failure of step 1 been answered by structuring an
\* empty narrative
ModelRaise_StructureAnyway(r) ==
    /\ pc[r] \in {"await_text", "await_pdf_text"}
    /\ \E exc \in ModelFailures :
          LET L == [Local(r) EXCEPT
                      !.calls = Answered(@, [@[Len(@)] EXCEPT !.status = "raised"])]
          IN  IF pc[r] = "await_pdf_text"
              THEN Apply(r, req[r], summarize_text(L, L.stack, <<"a">>, None, None))
              ELSE Apply(r, req[r], Raise(L, L.stack, exc))

\* a model request fails
ModelRaise(r) ==
    /\ pc[r] \in {"await_text", "await_pdf_text"}
    /\ \E exc \in ModelFailures :
          LET L == [Local(r) EXCEPT
                      !.calls = Answered(@, [@[Len(@)] EXCEPT !.status = "raised"])]
          IN  Apply(r, req[r], Raise(L, L.stack, exc))

\* what summarize_url does with the answer to its fetch, after
\* raise_for_status() let it pass
Classify(L, rq, response) ==
    LET content_type == Lower(response.content_type)
        soup         == response.body.soup
        embed_tag    == FindEmbed(soup)
        text         == GetText(Decompose(soup))
    IN  IF Contains(content_type, "application/pdf")
        THEN summarize_pdf_files(L, L.stack, BytesOf(response.body.content),
                                 rq.length, rq.tone, "application/pdf")
        ELSE IF Contains(content_type, "text/html")
        THEN IF embed_tag # NoElement /\ Truthy(embed_tag.src)
             THEN HttpGet(L, L.stack, "await_embed_get", urljoin(rq.input, embed_tag.src), FALSE)
             ELSE IF text = <<>>
             THEN Raise(L, L.stack, Exc("ValueError", "Could not extract meaningful text."))
             ELSE summarize_text(L, L.stack, text, rq.length, rq.tone)
        ELSE Raise(L, L.stack, Exc("ValueError", "Unsupported content type"))

\* the headers of an answered fetch
FetchAnswer(fetch, response) ==
    [method |-> fetch.method, url |-> fetch.url, follow_redirects |-> fetch.follow_redirects,
     status |-> "returned", status_code |-> response.status_code,
     content_type |-> response.content_type, content_length |-> response.content_length,
     body |-> response.body]

\* the web server answers the fetch of summarize_url
UrlGetReturn(r) ==
    /\ pc[r] = "await_get"
    /\ \E response \in HttpResponses :
          LET L == [Local(r) EXCEPT
                      !.fetches = Answered(@, FetchAnswer(@[Len(@)], response))]
          IN  IF response.status_code >= 400
              THEN Apply(r, req[r],
                         Raise(L, L.stack,
                               [type |-> "HTTPStatusError", msg |-> "error status",
                                status_code |-> response.status_code]))
              ELSE Apply(r, req[r], Classify(L, req[r], response))

\* the web server answers the fetch of the embedded PDF
EmbedGetReturn(r) ==
    /\ pc[r] = "await_embed_get"
    /\ \E response \in EmbedResponses :
          LET L == [Local(r) EXCEPT
                      !.fetches = Answered(@, FetchAnswer(@[Len(@)], response))]
          IN  Apply(r, req[r],
                    summarize_pdf_files(L, L.stack, BytesOf(response.body.content),
                                        req[r].length, req[r].tone, "application/pdf"))

\* a fetch fails in transport
FetchRaise(r) ==
    /\ pc[r] \in {"await_get", "await_embed_get"}
    /\ \E exc \in FetchFailures :
          LET L == [Local(r) EXCEPT
                      !.fetches = Answered(@, [@[Len(@)] EXCEPT !.status = "raised"])]
          IN  Apply(r, req[r], Raise(L, L.stack, exc))

(***************************************************************************)
(* Specification: one request, from any entry, to its outcome.             *)
(***************************************************************************)
\* client = genai.Client(api_key=config.GEMINI_API_KEY)
Client == [api_key |-> "GEMINI_API_KEY"]

Init ==
    /\ pc = [r \in Reqs |-> "idle"]
    /\ req = [r \in Reqs |-> [entry |-> "none"]]
    /\ stack = [r \in Reqs |-> <<>>]
    /\ entered = [r \in Reqs |-> <<>>]
    /\ model_calls = [r \in Reqs |-> <<>>]
    /\ fetches = [r \in Reqs |-> <<>>]
    /\ outcome = [r \in Reqs |-> [kind |-> "none"]]
    /\ client = Client

Step(r) ==
    \/ summarize_from_paste_endpoint(r)
    \/ summarize_url_endpoint(r)
    \/ summarize_pdf_upload_endpoint(r)
    \/ CallSummarizeText(r)
    \/ CallSummarizePdfFiles(r)
    \/ CallSummarizeUrl(r)
    \/ TextModelReturn(r)
    \/ PdfStep1Return(r)
    \/ ModelRaise(r)
    \/ UrlGetReturn(r)
    \/ EmbedGetReturn(r)
    \/ FetchRaise(r)

Next == Step(1)

Spec == Init /\ [][Next]_vars

(***************************************************************************)
(* Specification: two requests at once, their steps interleaved in any     *)
(* order at their suspension points (the awaits of the fetches and of the  *)
(* model requests). Each request draws its inputs and the replies to its   *)
(* remote calls from a few representative values.                          *)
(***************************************************************************)
FewBodies ==
    {[content |-> PdfA, soup |-> <<>>],
     [content |-> <<60>>,
      soup |-> <<Embed("application/pdf", "doc.pdf"), Node("p", "body", <<"a">>)>>],
     [content |-> <<60>>,
      soup |-> <<Embed("video/mp4", "clip.mp4"), Node("p", "body", <<"a">>)>>]}

InFew(r) ==
    /\ req[r].entry # "none"
       => /\ req[r].length = None /\ req[r].tone = None
          /\ req[r].entry \in RouterFrames
             => /\ req[r].content_length \in {NoHeader, IntHeader(MAX_REQUEST_SIZE + 1)}
                /\ req[r].custom_prompt = None
                /\ req[r].output_format = "json"
          /\ req[r].entry = "router_url"
                \/ (req[r].entry = "direct" /\ req[r].fn = "summarize_url")
                \/ Len(req[r].input) <= 1
    /\ \A i \in 1..Len(model_calls[r]) :
          /\ model_calls[r][i].reply \in {NoneText, <<"a">>}
          /\ model_calls[r][i].usage_metadata \in {NoUsage, Usage(10, 20, 30)}
    /\ \A i \in 1..Len(fetches[r]) :
          fetches[r][i].status = "returned"
          => /\ fetches[r][i].status_code \in {200, 404}
             /\ fetches[r][i].content_type
                   \in {<<"application/pdf">>, <<"TEXT/HTML">>, <<"image/png">>}
             /\ fetches[r][i].content_length = NoneInt
             /\ fetches[r][i].body \in FewBodies

NextConc ==
    \E r \in Reqs :
        \/ summarize_from_paste_endpoint(r) /\ InFew(r)'
        \/ summarize_url_endpoint(r) /\ InFew(r)'
        \/ summarize_pdf_upload_endpoint(r) /\ InFew(r)'
        \/ CallSummarizeText(r) /\ InFew(r)'
        \/ CallSummarizePdfFiles(r) /\ InFew(r)'
        \/ CallSummarizeUrl(r) /\ InFew(r)'
        \/ TextModelReturn(r) /\ InFew(r)'
        \/ PdfStep1Return(r) /\ InFew(r)'
        \/ ModelRaise(r) /\ InFew(r)'
        \/ UrlGetReturn(r) /\ InFew(r)'
        \/ EmbedGetReturn(r) /\ InFew(r)'
        \/ FetchRaise(r) /\ InFew(r)'

SpecConc == Init /\ [][NextConc]_vars

(***************************************************************************)
(* Vocabulary of the claims                                                *)
(***************************************************************************)
Done(r) == pc[r] = "done"
ViaRouter(r) == req[r].entry \in RouterFrames
Direct(r, fn) == req[r].entry = "direct" /\ req[r].fn = fn
GuardPassed(r) == ViaRouter(r) /\ limit_content_length(req[r].content_length) = 0

\* the request ended in a failure: an exception to a direct caller, an HTTP
\* error answer of an except clause, or an exception no clause caught
Failed(r) == outcome[r].kind \in {"raised", "http_error", "uncaught"}

\* the failure kind of the taxonomy that an exception of the program stands for
FailureKind(exc) ==
    CASE exc.type = "ValueError" /\ exc.msg \in {"Input text cannot be empty.",
                                                 "No file content was provided."}
            -> "EmptyInput"
      [] exc.type = "ValueError" /\ exc.msg = "Could not extract meaningful text."
            -> "EmptyContent"
      [] exc.type = "ValueError" /\ exc.msg = "Unsupported content type"
            -> "UnsupportedContentType"
      [] exc.type = "ValueError" /\ exc.msg = "Could not fetch or process the URL"
            -> "FetchFailed"
      [] exc.type = "URLAccessError" -> "RemoteAccess"
      [] exc.type = "RuntimeError"   -> "ModelInvocation"
      [] exc.type = "HTTPException" /\ exc.msg = "size guard" -> "Oversize"
      [] OTHER -> "Unclassified"

Taxonomy ==
    {"EmptyInput", "EmptyContent", "UnsupportedContentType", "Oversize", "RemoteAccess",
     "FetchFailed", "ModelInvocation"}

\* the model requests of request r, as indices of its log
Calls(r) == 1..Len(model_calls[r])
NoModelRequest(r) == model_calls[r] = <<>>

(***************************************************************************)
(* C1: every request made through the routing layer that reaches an        *)
(* endpoint ends either in a complete result (title, summary, usage) or in *)
(* one failure of the closed taxonomy, caught and answered by the          *)
(* endpoint; no unclassified or uncaught error is an outcome.              *)
(***************************************************************************)
C1_RouterOutcomeIsResultOrTypedFailure ==
    \A r \in Reqs :
        Done(r) /\ GuardPassed(r) =>
            \/ outcome[r].kind = "result"
            \/ /\ outcome[r].kind = "http_error"
               /\ FailureKind(outcome[r].exc) \in Taxonomy

(***************************************************************************)
(* C2: summarize_text fails with the empty-input error, and issues no      *)
(* model request, for every text that is empty once its newlines are       *)
(* replaced by spaces and the result is trimmed.                           *)
(***************************************************************************)
C2_BlankTextIsEmptyInput ==
    \A r \in Reqs :
        /\ Direct(r, "summarize_text")
        /\ Strip(ReplaceNewlines(req[r].input)) = <<>>
        => /\ NoModelRequest(r)
           /\ Done(r)
           /\ outcome[r].kind = "raised"
           /\ FailureKind(outcome[r].exc) = "EmptyInput"

(***************************************************************************)
(* C3: when the web server answers the fetch of summarize_url with an      *)
(* error status, the operation fails with the remote-access error          *)
(* (URLAccessError) carrying that status, which the URL endpoint answers   *)
(* with the same status code; no model request is issued.                  *)
(***************************************************************************)
C3_ErrorStatusIsRemoteAccessError ==
    \A r \in Reqs :
        /\ Direct(r, "summarize_url")
        /\ Len(fetches[r]) = 1
        /\ fetches[r][1].status = "returned"
        /\ fetches[r][1].status_code >= 400
        => /\ Done(r)
           /\ NoModelRequest(r)
           /\ outcome[r].kind = "raised"
           /\ FailureKind(outcome[r].exc) = "RemoteAccess"
           /\ outcome[r].exc.status_code = fetches[r][1].status_code
           /\ RouterHandler("router_url", outcome[r].exc).status = fetches[r][1].status_code

(***************************************************************************)
(* C4: the generation mode of every model request of a request made        *)
(* through the routing layer is decided by the custom instruction alone:   *)
(* FreeText when it is non-blank, Structured when it is absent or blank.   *)
(***************************************************************************)
C4_ModeFollowsCustomInstruction ==
    \A r \in Reqs :
        ViaRouter(r) =>
            \A i \in Calls(r) :
                Mode(model_calls[r][i].config) =
                    IF Blank(req[r].custom_prompt) THEN "Structured" ELSE "FreeText"

\* the length phrase of each value a caller can select
LengthPhrase(length) ==
    CASE length = "Short"    -> "in a single, concise paragraph (around 100 words)"
      [] length = "Medium"   -> "in about three paragraphs (around 300 words)"
      [] length = "Detailed" -> "as a detailed summary (around 500 words)"

\* the length phrases an instruction holds
LengthLines(instruction) ==
    {instruction[i][2] : i \in {j \in 1..Len(instruction) : instruction[j][1] = "length"}}

(***************************************************************************)
(* C5: when the caller selected a length (Short, Medium or Detailed), the  *)
(* instruction of a Structured-mode model request holds the length phrase  *)
(* of that value, and the instruction of a FreeText-mode model request     *)
(* holds no length phrase.                                                 *)
(***************************************************************************)
C5_LengthPhraseByMode ==
    \A r \in Reqs :
        req[r].entry # "none" /\ req[r].length \in LengthOption =>
            \A i \in Calls(r) :
                LET config == model_calls[r][i].config IN
                IF Mode(config) = "Structured"
                THEN LengthLines(config.system_instruction) = {LengthPhrase(req[r].length)}
                ELSE LengthLines(config.system_instruction) = {}

(***************************************************************************)
(* C6: when a model request fails, whatever it raises and in whichever     *)
(* step, the request fails with the one model-invocation error             *)
(* (RuntimeError) and its readable message; the exception the model client *)
(* raised never leaves summarize_text or summarize_pdf_files.              *)
(***************************************************************************)
C6_ModelFailureIsWrapped ==
    \A r \in Reqs :
        (\E i \in Calls(r) : model_calls[r][i].status = "raised") =>
            /\ Done(r)
            /\ outcome[r].kind \in {"raised", "http_error"}
            /\ outcome[r].exc.type = "RuntimeError"
            /\ outcome[r].exc.msg \in {"Failed to get a summary from the API.",
                                       "Failed to process the PDF files with the API."}
            /\ outcome[r].exc \notin ModelFailures

\* the structuring request of an upload failed in transport and the endpoint
\* answered with the wrapped error
C6_Witness ==
    \E r \in Reqs :
        /\ req[r].entry = "router_pdf"
        /\ Len(model_calls[r]) = 2
        /\ model_calls[r][2].status = "raised"
        /\ outcome[r].kind = "http_error"
        /\ outcome[r].exc.type = "RuntimeError"

(***************************************************************************)
(* C7: when a Structured-mode model request of a request made through the  *)
(* routing layer is answered without a parsed object, the request fails:   *)
(* it never completes with a result built from the raw response text.     *)
(***************************************************************************)
C7_MissingParseNeverCompletes ==
    \A r \in Reqs :
        ViaRouter(r) =>
            \A i \in Calls(r) :
                /\ Mode(model_calls[r][i].config) = "Structured"
                /\ model_calls[r][i].status = "returned"
                /\ model_calls[r][i].parsed = NoParsed
                => /\ Done(r)
                   /\ outcome[r].kind # "result"

\* the model requests of request r not yet answered
Outstanding(r) == {i \in Calls(r) : model_calls[r][i].status = "outstanding"}

(***************************************************************************)
(* C8: the two model requests of summarize_pdf_files are strictly ordered: *)
(* the structuring request is issued only after the plain-text request     *)
(* returned a text, it carries that text (newlines replaced by spaces, as  *)
(* summarize_text does with any text), at most one model request is        *)
(* outstanding at a time, and no request follows a failed one.             *)
(***************************************************************************)
C8_PdfStepsAreSequential ==
    \A r \in Reqs :
        LET calls == model_calls[r] IN
        /\ Cardinality(Outstanding(r)) <= 1
        /\ Len(calls) <= 2
        /\ \A i \in Calls(r) : i < Len(calls) => calls[i].status = "returned"
        /\ Len(calls) = 2 =>
              /\ calls[1].contents.parts # <<>>
              /\ Mode(calls[1].config) = "FreeText"
              /\ calls[1].reply # NoneText
              /\ Mode(calls[2].config) = "Structured"
              /\ calls[2].contents.parts = <<>>
              /\ calls[2].contents.text = ReplaceNewlines(calls[1].reply)

\* the structuring request is outstanding, carrying the narrative of step 1
C8_Witness ==
    \E r \in Reqs :
        /\ Len(model_calls[r]) = 2
        /\ model_calls[r][1].reply = <<"a", "\n">>
        /\ model_calls[r][2].status = "outstanding"
        /\ model_calls[r][2].contents.text = <<"a", " ">>

(***************************************************************************)
(* C9: when the remote resource declares a size greater than the maximum,  *)
(* summarize_url fails with the oversize error, never having issued the    *)
(* full-body download (a GET), and no model request follows.               *)
(***************************************************************************)
C9_OversizeIsRejectedBeforeDownload ==
    \A r \in Reqs :
        \A i \in 1..Len(fetches[r]) :
            /\ fetches[r][i].status = "returned"
            /\ fetches[r][i].content_length > MAX_REQUEST_SIZE
            => /\ fetches[r][i].method # "GET"
               /\ Done(r)
               /\ Failed(r)
               /\ FailureKind(outcome[r].exc) = "Oversize"
               /\ NoModelRequest(r)

(***************************************************************************)
(* C10: an HTML answer to the fetch of summarize_url.                      *)
(***************************************************************************)
\* the visible text of a document: the texts of the elements that are not,
\* and are not inside, script, style, nav, footer, header, aside or iframe,
\* each stripped, the non-empty ones joined by single spaces
RECURSIVE VisibleText(_)
VisibleText(soup) ==
    IF soup = <<>> THEN <<>>
    ELSE LET n       == Head(soup)
             hidden  == {"script", "style", "nav", "footer", "header", "aside", "iframe"}
             own     == IF n.tag \in hidden \/ n.parent \in hidden THEN <<>> ELSE Strip(n.text)
             rest    == VisibleText(Tail(soup))
         IN  IF own = <<>> THEN rest
             ELSE IF rest = <<>> THEN own
             ELSE own \o <<" ">> \o rest

\* summarize_url got a success answer to its fetch
Fetched(r) ==
    /\ Direct(r, "summarize_url")
    /\ Len(fetches[r]) >= 1
    /\ fetches[r][1].status = "returned"
    /\ fetches[r][1].status_code < 400

DeclaresHtml(r) == Contains(Lower(fetches[r][1].content_type), "text/html")
DeclaresPdf(r) == Contains(Lower(fetches[r][1].content_type), "application/pdf")

\* the document's first <embed type="application/pdf"> has a src
EmbedsPdf(r) ==
    LET embed_tag == FindEmbed(fetches[r][1].body.soup)
    IN  embed_tag # NoElement /\ Truthy(embed_tag.src)

\* the document is handled as text: its visible text goes to summarize_text,
\* or the request fails with the empty-content error if there is none
HandledAsText(r) ==
    LET text == VisibleText(fetches[r][1].body.soup) IN
    /\ Len(fetches[r]) = 1
    /\ "summarize_pdf_files" \notin {entered[r][i] : i \in 1..Len(entered[r])}
    /\ IF text = <<>>
       THEN /\ Done(r)
            /\ outcome[r].kind = "raised"
            /\ FailureKind(outcome[r].exc) = "EmptyContent"
            /\ NoModelRequest(r)
            /\ entered[r] = <<"summarize_url">>
       ELSE /\ entered[r] = <<"summarize_url", "summarize_text">>
            /\ Len(model_calls[r]) = 1
            /\ model_calls[r][1].contents.parts = <<>>
            /\ model_calls[r][1].contents.text = ReplaceNewlines(text)

\* C10, as claimed: every success answer that declares a media type
\* containing "text/html" is handled as text, and never routed to
\* summarize_pdf_files.
C10_EveryHtmlAnswerIsHandledAsText ==
    \A r \in Reqs : Fetched(r) /\ DeclaresHtml(r) => HandledAsText(r)

\* C10, amended: a success answer that declares a media type containing
\* "text/html" and not "application/pdf" is handled as text, and never routed
\* to summarize_pdf_files, unless the document's first
\* <embed type="application/pdf"> has a src: then the embed's source is
\* fetched (resolved against the URL) and routed to summarize_pdf_files,
\* and summarize_text is not entered.
C10_HtmlWithoutPdfEmbedIsHandledAsText ==
    \A r \in Reqs :
        Fetched(r) /\ DeclaresHtml(r) /\ ~DeclaresPdf(r) =>
            IF EmbedsPdf(r)
            THEN /\ Len(fetches[r]) = 2
                 /\ fetches[r][2].method = "GET"
                 /\ fetches[r][2].url \in {"https://site/doc.pdf", "https://cdn/doc.pdf"}
                 /\ entered[r] = IF fetches[r][2].status = "returned"
                                 THEN <<"summarize_url", "summarize_pdf_files">>
                                 ELSE <<"summarize_url">>
            ELSE HandledAsText(r)

\* a page with a script and a paragraph inside a div: the paragraph's text
\* alone is on its way to the model
C10_Witness ==
    \E r \in Reqs :
        /\ Fetched(r) /\ DeclaresHtml(r) /\ ~DeclaresPdf(r) /\ ~EmbedsPdf(r)
        /\ \E i \in 1..Len(fetches[r][1].body.soup) :
              fetches[r][1].body.soup[i].tag = "script"
        /\ pc[r] = "await_text"
        /\ model_calls[r][1].contents.text = <<"a">>


(***************************************************************************)
(* C11: summarize_pdf_files called with no files fails with the            *)
(* empty-input error, a ValueError that the function's own except clause   *)
(* has not wrapped into a RuntimeError, and issues no model request.       *)
(***************************************************************************)
C11_NoFilesIsEmptyInput ==
    \A r \in Reqs :
        /\ Direct(r, "summarize_pdf_files") \/ req[r].entry = "router_pdf"
        /\ ViaRouter(r) => GuardPassed(r)
        /\ req[r].input = <<>>
        => /\ Done(r)
           /\ NoModelRequest(r)
           /\ entered[r] = <<"summarize_pdf_files">>
           /\ outcome[r].kind \in {"raised", "http_error"}
           /\ outcome[r].exc = Exc("ValueError", "No file content was provided.")
           /\ FailureKind(outcome[r].exc) = "EmptyInput"

\* summarize_pdf_files([]) has raised the ValueError to its caller
C11_Witness ==
    \E r \in Reqs :
        /\ Direct(r, "summarize_pdf_files")
        /\ req[r].input = <<>>
        /\ outcome[r].kind = "raised"
        /\ outcome[r].exc.type = "ValueError"


\* the last model request of r, the one summarize_text issues, was answered
\* with a response that carries a summary (parsed, or as text)
Summarized(r) ==
    /\ model_calls[r] # <<>>
    /\ LET last == model_calls[r][Len(model_calls[r])]
       IN  /\ last.status = "returned"
           /\ Mode(last.config) = "Structured"
           /\ last.parsed # NoParsed \/ last.reply # NoneText

\* the counters of a response, an omitted counter read as zero
OrZero(count) == IF count = NoneInt THEN 0 ELSE count
CountersOrZero(usage) ==
    IF usage = NoUsage THEN Usage(0, 0, 0)
    ELSE Usage(OrZero(usage.prompt_token_count), OrZero(usage.candidates_token_count),
               OrZero(usage.total_token_count))

\* the counters the answer to r reports: in the JSON body, or in the headers
ReportsCounters(r, usage) ==
    /\ outcome[r].kind = "result"
    /\ IF outcome[r].format = "json"
       THEN outcome[r].usage = usage
       ELSE outcome[r].headers = [prompt     |-> [digits |-> usage.prompt_token_count],
                                  candidates |-> [digits |-> usage.candidates_token_count],
                                  total      |-> [digits |-> usage.total_token_count]]

(***************************************************************************)
(* C12: every endpoint request whose model response carries a summary      *)
(* completes, and reports the response's three usage counters (in the JSON *)
(* body, or in the headers of a file format), a counter the provider       *)
(* omitted being reported as zero.                                         *)
(***************************************************************************)
C12_OmittedCountersAreZero ==
    \A r \in Reqs :
        ViaRouter(r) /\ Done(r) /\ Summarized(r)
        => ReportsCounters(r, CountersOrZero(
                                 model_calls[r][Len(model_calls[r])].usage_metadata))


\* the size guard answered r with `status`
RejectedByGuard(r, status) ==
    /\ Done(r)
    /\ outcome[r] = [kind |-> "http_error", status |-> status,
                     exc |-> Exc("HTTPException", "size guard")]

\* the Content-Length header of r is the text of an integer
IntegerHeader(r) ==
    LET h == req[r].content_length IN h.present /\ ~h.empty /\ h.is_int

(***************************************************************************)
(* C14: of an endpoint request, the size guard rejects with 413 exactly    *)
(* the one whose Content-Length is an integer greater than 15*1024*1024,   *)
(* rejects with 400 the one whose Content-Length is not an integer, and    *)
(* lets through the one without the header; a rejected request has issued  *)
(* no fetch and no model request.                                          *)
(***************************************************************************)
C14_GuardRejectsOversizeAndNonInteger ==
    \A r \in Reqs :
        ViaRouter(r) =>
            LET h == req[r].content_length IN
            /\ IntegerHeader(r) => (RejectedByGuard(r, 413) <=> h.size > 15 * 1024 * 1024)
            /\ h.present /\ ~IntegerHeader(r) => RejectedByGuard(r, 400)
            /\ ~h.present => ~(RejectedByGuard(r, 400) \/ RejectedByGuard(r, 413))
            /\ RejectedByGuard(r, 400) \/ RejectedByGuard(r, 413)
               => fetches[r] = <<>> /\ NoModelRequest(r)


(***************************************************************************)
(* C15: the first model request of a PDF upload carries one binary block   *)
(* per uploaded file, in upload order, each tagged "application/pdf",      *)
(* whatever the custom instruction of the request.                         *)
(***************************************************************************)
C15_UploadBlocksArePdf ==
    \A r \in Reqs :
        req[r].entry = "router_pdf" /\ ~NoModelRequest(r)
        => model_calls[r][1].contents.parts =
              [i \in 1..Len(req[r].input) |->
                  [data |-> req[r].input[i], mime_type |-> "application/pdf"]]


(***************************************************************************)
(* C16: when the answer to the fetch of summarize_url declares a media     *)
(* type containing "application/pdf", summarize_pdf_files is entered with  *)
(* one blob, the whole response body: a model request is issued that       *)
(* carries one binary block holding the body and the single-document       *)
(* directive, whatever the length (one byte or more) of the body.          *)
(***************************************************************************)
C16_PdfUrlIsOneBlob ==
    \A r \in Reqs :
        Fetched(r) /\ DeclaresPdf(r) /\ fetches[r][1].body.content # <<>>
        => /\ entered[r] = <<"summarize_url", "summarize_pdf_files">>
                \/ entered[r] = <<"summarize_url", "summarize_pdf_files", "summarize_text">>
           /\ ~NoModelRequest(r)
           /\ model_calls[r][1].contents.parts =
                 <<[data |-> fetches[r][1].body.content, mime_type |-> "application/pdf"]>>
           /\ model_calls[r][1].contents.prompt =
                 "Please provide a detailed summary of this document."


\* summarize_pdf_files has run both its model requests and the second one
\* was answered
BothStepsAnswered(r) ==
    /\ Direct(r, "summarize_pdf_files") \/ req[r].entry = "router_pdf"
    /\ Len(model_calls[r]) = 2
    /\ model_calls[r][2].status = "returned"

\* the kinds of the lines of an instruction
LineKinds(instruction) == {instruction[i][1] : i \in 1..Len(instruction)}

\* the counters of a response as the headers of a file answer show them
CounterHeaders(usage) ==
    LET Show(count) == IF count = NoneInt THEN [none |-> "None"] ELSE [digits |-> count]
    IN  IF usage = NoUsage THEN NoUsage
        ELSE [prompt     |-> Show(usage.prompt_token_count),
              candidates |-> Show(usage.candidates_token_count),
              total      |-> Show(usage.total_token_count)]

(***************************************************************************)
(* C17: a summarize_pdf_files call that completed returns the response of  *)
(* its second model request: a direct caller gets that response, and the   *)
(* upload endpoint answers with its title and summary (its text, when it   *)
(* carries no parse) and its usage counters, those of the first request    *)
(* being neither reported nor added. The instruction of the first request  *)
(* holds a length line and the caller's tone exactly when the caller gave  *)
(* them; the instruction of the second request holds neither.              *)
(***************************************************************************)
C17_PdfResultIsSecondResponse ==
    \A r \in Reqs :
        BothStepsAnswered(r) =>
            LET first  == model_calls[r][1]
                second == model_calls[r][2]
            IN  /\ Done(r)
                /\ Direct(r, "summarize_pdf_files")
                   => outcome[r] = [kind |-> "returned",
                                    response |-> [text |-> second.reply,
                                                  parsed |-> second.parsed,
                                                  usage_metadata |-> second.usage_metadata]]
                /\ outcome[r].kind = "result" /\ outcome[r].format = "json"
                   => /\ outcome[r].usage = second.usage_metadata
                      /\ outcome[r].summary = IF second.parsed # NoParsed
                                              THEN second.parsed.summary ELSE second.reply
                      /\ second.parsed # NoParsed => outcome[r].title = second.parsed.title
                /\ outcome[r].kind = "result" /\ outcome[r].format # "json"
                   => /\ outcome[r].headers = CounterHeaders(second.usage_metadata)
                      /\ outcome[r].body = IF second.parsed # NoParsed
                                           THEN second.parsed.summary
                                           ELSE IF second.reply = NoneText THEN <<>>
                                           ELSE second.reply
                /\ "length" \in LineKinds(first.config.system_instruction)
                   <=> req[r].length \notin {None, ""}
                /\ \A i \in 1..Len(first.config.system_instruction) :
                      first.config.system_instruction[i][1] = "tone"
                      => first.config.system_instruction[i][2] = req[r].tone
                /\ "tone" \in LineKinds(first.config.system_instruction)
                   <=> req[r].tone \notin {None, ""}
                /\ LineKinds(second.config.system_instruction) \cap {"length", "tone"} = {}

\* an upload answered in JSON whose two model responses carried different
\* usage counters and different texts
C17_Witness ==
    \E r \in Reqs :
        /\ BothStepsAnswered(r)
        /\ req[r].entry = "router_pdf"
        /\ req[r].length # None /\ req[r].tone # None
        /\ outcome[r].kind = "result" /\ outcome[r].format = "json"
        /\ model_calls[r][1].usage_metadata = Usage(5, 5, 10)
        /\ model_calls[r][2].usage_metadata = Usage(10, 20, 30)
        /\ model_calls[r][2].parsed # NoParsed
        /\ model_calls[r][1].reply # model_calls[r][2].parsed.summary


\* the state of request r
Own(r) == <<pc[r], req[r], stack[r], entered[r], model_calls[r], fetches[r], outcome[r]>>

\* two requests with the same inputs and the same replies to their remote
\* calls so far
SameInputsAndReplies(p, q) ==
    /\ req[p] = req[q]
    /\ model_calls[p] = model_calls[q]
    /\ fetches[p] = fetches[q]

\* what a request has come to follows from its inputs and its replies
OutcomeIsOwn ==
    \A p, q \in Reqs :
        SameInputsAndReplies(p, q) => pc[p] = pc[q] /\ outcome[p] = outcome[q]

\* a step is the step of one request: it leaves the state of every other
\* request, and the client handle, as they were
StepIsOwn ==
    /\ \A p, q \in Reqs : p # q /\ Own(p)' # Own(p) => Own(q)' = Own(q)
    /\ client' = client

(***************************************************************************)
(* C13: of two requests running at once, interleaved in any order at their *)
(* fetches and model requests, each one's outcome follows from its own     *)
(* inputs and the replies to its own remote calls: two requests with the   *)
(* same inputs and replies are at the same point with the same outcome,    *)
(* and a step of one request changes nothing of the other. The model       *)
(* client, the one thing they share, is never modified.                    *)
(***************************************************************************)
C13_RequestsDoNotInterfere == []OutcomeIsOwn /\ [][StepIsOwn]_vars

\* request 1 has completed an upload on the answers to both its model
\* requests while request 2, with another input, is suspended at a fetch
C13_Witness ==
    /\ req[1].entry = "router_pdf"
    /\ Len(model_calls[1]) = 2
    /\ outcome[1].kind = "result"
    /\ pc[2] = "await_get"

====
